---- MODULE Spec2Model ----
(***************************************************************************)
(* The RAG knowledge-base handler (lambda/rag-knowledge-base/handler.py)   *)
(* as a state machine.  The DynamoDB table, the embedding model and the    *)
(* answer model are external: every call to one of them is one atomic      *)
(* step of the request that makes it, and may succeed or raise.  Requests  *)
(* (lambda invocations) run concurrently and share only the table.         *)
(***************************************************************************)
EXTENDS Integers, Sequences, FiniteSets, TLC

VARIABLES
    store,   \* the items of EMBEDDINGS_TABLE, one per key (embedding_id, created_at)
    now,     \* datetime.utcnow(), as a tick count
    nreq,    \* lambda invocations started so far
    req      \* per invocation slot: the request, its locals and its response

vars == <<store, now, nreq, req>>

(***************************** bounds **************************************)

\* lambda invocations in one behaviour
MaxRequests == 2
\* last value of the clock
MaxClock == 1
\* largest top_k a request names
MaxTopK == 1

\* the slots of concurrent lambda invocations
Procs == {1, 2}

(************************* program constants *******************************)

\* retrieve_embeddings(dataset_id=None, limit=1000): the default limit, scaled
\* from 1000 to 2 so that a table can hold more items than one read returns.
DefaultLimit == 2
\* params.get('top_k', 5) in query_knowledge_base
QueryTopK == 5
\* parameters.get('top_k', 10) in lambda_handler
SearchTopK == 10

EMBEDDING_MODEL == "amazon.titan-embed-text-v1"

\* Python's None, among strings
None == "None"

(****************************** inputs *************************************)

DatasetIds == {"ds-1", "ds-2"}

\* What the embedding model may return.  The components are chosen so that
\* every magnitude is an integer (5, 0, 13): math.sqrt is then exact.  The
\* third vector has another dimension than the first two (a changed model,
\* or a corrupted item).
Vectors == {<<3, 4>>, <<0, 0>>, <<4, 3, 12>>}

\* What the embedding model returns for the chunks the writers index: their
\* vectors are stored and deleted, never read
ChunkVectors == {<<3, 4>>}

\* What the answer model may return (response_body content text, '' included)
Answers == {"", "Bronze coins."}

\* dict.get(key, default)
Get(d, k, default) == IF k \in DOMAIN d THEN d[k] ELSE default

\* A dict with no key
EmptyDict == [k \in {} |-> None]

\* `not x` for x a str or None
Falsy(x) == x = None \/ x = ""

Min(a, b) == IF a < b THEN a ELSE b
Max(a, b) == IF a > b THEN a ELSE b

(**************************** vector math **********************************)

\* sum(a * b for a, b in zip(vec1, vec2)): zip stops at the shorter vector
RECURSIVE DotUpTo(_, _, _)
DotUpTo(vec1, vec2, n) ==
    IF n = 0 THEN 0 ELSE DotUpTo(vec1, vec2, n - 1) + vec1[n] * vec2[n]

DotProduct(vec1, vec2) == DotUpTo(vec1, vec2, Min(Len(vec1), Len(vec2)))

\* math.sqrt, on the perfect squares the inputs produce
Sqrt(n) == CHOOSE r \in 0..n : r * r <= n /\ (r + 1) * (r + 1) > n

Magnitude(vec) == Sqrt(DotUpTo(vec, vec, Len(vec)))

\* The quotient with a magnitude of zero taken for one: a vector of zero
\* magnitude scores its dot product, and two such vectors count as the same
cosine_similarity_ZeroAsOne(vec1, vec2) ==
    LET dot_product == DotProduct(vec1, vec2)
        magnitude1 == Magnitude(vec1)
        magnitude2 == Magnitude(vec2)
    IN  IF magnitude1 = 0 /\ magnitude2 = 0
        THEN 100
        ELSE (dot_product * 100) \div (Max(magnitude1, 1) * Max(magnitude2, 1))

\* The similarity is a fixed-point number, in hundredths: 1.0 is 100.
cosine_similarity(vec1, vec2) ==
    LET dot_product == DotProduct(vec1, vec2)
        magnitude1 == Magnitude(vec1)
        magnitude2 == Magnitude(vec2)
    IN  IF magnitude1 = 0 \/ magnitude2 = 0
        THEN 0
        ELSE (dot_product * 100) \div (magnitude1 * magnitude2)

(************************* embedding record store **************************)

\* The primary key of the table: delete_item names an item by this pair.
Key(item) == [embedding_id |-> item.embedding_id, created_at |-> item.created_at]

\* table.put_item(Item=item): replaces the item that has the same key, if any
PutItem(table, item) == {i \in table : Key(i) # Key(item)} \cup {item}

\* A delete by embedding_id alone: every item of that id goes
DeleteItem_ById(table, key) == {i \in table : i.embedding_id # key.embedding_id}

\* table.delete_item(Key=key): removing an absent item is no error
DeleteItem(table, key) == {i \in table : Key(i) # key}

\* The item store_embedding builds, stamped with the clock
NewItem(embedding_id, dataset_id, content_type, content, embedding, metadata, clock) ==
    [embedding_id |-> embedding_id,
     dataset_id   |-> dataset_id,
     content_type |-> content_type,
     content      |-> content,
     embedding    |-> embedding,
     model        |-> EMBEDDING_MODEL,
     created_at   |-> clock,
     metadata     |-> metadata]

\* The scan taken whatever the dataset_id
Matching_WholeTable(table, dataset_id) == table

\* The items a read considers: the DatasetIdIndex query when dataset_id is
\* truthy, else the scan of the whole table.
Matching(table, dataset_id) ==
    IF Falsy(dataset_id) THEN table ELSE {i \in table : i.dataset_id = dataset_id}

\* The sequences of n distinct elements of S
Enumerations(S, n) ==
    {s \in [1..n -> S] : \A i, j \in 1..n : i # j => s[i] # s[j]}

\* A read that may miss what was written: the page, or no item at all
retrieve_embeddings_Stale(table, dataset_id, limit) ==
    LET S == Matching(table, dataset_id)
    IN  Enumerations(S, Min(limit, Cardinality(S))) \cup {<<>>}

\* What retrieve_embeddings may return: one page of at most `limit` items, in
\* the order of the table's choosing (response.get('Items', [])); the code
\* reads no further page.
retrieve_embeddings(table, dataset_id, limit) ==
    LET S == Matching(table, dataset_id)
    IN  Enumerations(S, Min(limit, Cardinality(S)))

(******************************* retriever *********************************)

\* The entry semantic_search appends for one item
Result(item, query_embedding) ==
    [embedding_id |-> item.embedding_id,
     dataset_id   |-> item.dataset_id,
     content_type |-> item.content_type,
     content      |-> item.content,
     metadata     |-> item.metadata,
     similarity   |-> cosine_similarity(query_embedding, item.embedding)]

\* The content-type filter of semantic_search
FilterByType(all_embeddings, content_type) ==
    IF Falsy(content_type)
    THEN all_embeddings
    ELSE SelectSeq(all_embeddings, LAMBDA item : item.content_type = content_type)

\* The result put before the entries as similar as it is: equal entries end
\* in reverse order
RECURSIVE Insert_BeforeEquals(_, _)
Insert_BeforeEquals(sorted, r) ==
    IF sorted = <<>> THEN <<r>>
    ELSE IF Head(sorted).similarity > r.similarity
         THEN <<Head(sorted)>> \o Insert_BeforeEquals(Tail(sorted), r)
         ELSE <<r>> \o sorted

\* One result put in its place in a list already sorted: behind every entry
\* that is at least as similar (equal entries keep their order)
RECURSIVE Insert(_, _)
Insert(sorted, r) ==
    IF sorted = <<>> THEN <<r>>
    ELSE IF Head(sorted).similarity >= r.similarity
         THEN <<Head(sorted)>> \o Insert(Tail(sorted), r)
         ELSE <<r>> \o sorted

\* The sort left out: the results in the order they were scored
SortDescending_Unsorted(results) == results

\* results.sort(key=lambda x: x['similarity'], reverse=True): stable, descending
RECURSIVE SortDescending(_)
SortDescending(results) ==
    IF results = <<>> THEN <<>>
    ELSE Insert(SortDescending(SubSeq(results, 1, Len(results) - 1)),
                results[Len(results)])

\* The cut left out: every scored result returned
Slice_Whole(results, top_k) == results

\* results[:top_k], Python's slice (a negative top_k counts from the end)
Slice(results, top_k) ==
    IF top_k >= 0
    THEN SubSeq(results, 1, Min(top_k, Len(results)))
    ELSE SubSeq(results, 1, Max(Len(results) + top_k, 0))

\* semantic_search after its two external calls: filter, score, sort, cut
Rank(query_embedding, all_embeddings, top_k, content_type) ==
    LET kept == FilterByType(all_embeddings, content_type)
        results == [i \in 1..Len(kept) |-> Result(kept[i], query_embedding)]
    IN  Slice(SortDescending(results), top_k)

\* `if include_answer:`, the results not looked at
WantsAnswer_IgnoringResults(include_answer, results) == include_answer

\* `if include_answer and results:` of query_knowledge_base
WantsAnswer(include_answer, results) == include_answer /\ results # <<>>

(******************************** indexer **********************************)

\* ', '.join(words)
RECURSIVE Join(_)
Join(words) ==
    IF words = <<>> THEN ""
    ELSE IF Len(words) = 1 THEN words[1]
    ELSE words[1] \o ", " \o Join(Tail(words))

\* The three chunks of index_dataset, in the order the code takes them
ContentTypes == <<"metadata", "abstract", "keywords">>

\* The conditions with `if title:` for `if title and description:`
BranchTaken_TitleAlone(params, b) ==
    CASE b = 1 -> Get(params, "title", "") # ""
      [] b = 2 -> Get(params, "abstract", "") # ""
      [] b = 3 -> Get(params, "keywords", <<>>) # <<>> \/ Get(params, "subjects", <<>>) # <<>>

\* The condition of branch b of index_dataset
BranchTaken(params, b) ==
    CASE b = 1 -> Get(params, "title", "") # "" /\ Get(params, "description", "") # ""
      [] b = 2 -> Get(params, "abstract", "") # ""
      [] b = 3 -> Get(params, "keywords", <<>>) # <<>> \/ Get(params, "subjects", <<>>) # <<>>

\* The text branch b embeds and stores
BranchContent(params, b) ==
    CASE b = 1 -> "Title: " \o Get(params, "title", "") \o "\n\nDescription: "
                      \o Get(params, "description", "")
      [] b = 2 -> Get(params, "abstract", "")
      [] b = 3 -> "Keywords: " \o Join(Get(params, "keywords", <<>>)) \o "\nSubjects: "
                      \o Join(Get(params, "subjects", <<>>))

\* The metadata branch b stores
BranchMetadata(params, b) ==
    IF b = 1
    THEN [title |-> Get(params, "title", ""), has_description |-> TRUE]
    ELSE [title |-> Get(params, "title", "")]

\* The id without the dataset: "#metadata", "#abstract", "#keywords"
EmbeddingId_Untagged(dataset_id, b) == "#" \o ContentTypes[b]

\* f"{dataset_id}#metadata", f"{dataset_id}#abstract", f"{dataset_id}#keywords"
EmbeddingId(dataset_id, b) == dataset_id \o "#" \o ContentTypes[b]

\* The first branch from b on whose condition holds; 4 when none is left
RECURSIVE NextBranch(_, _)
NextBranch(params, b) ==
    IF b > 3 THEN 4
    ELSE IF BranchTaken(params, b) THEN b
    ELSE NextBranch(params, b + 1)

(******************************* responses *********************************)

NoResponse == [statusCode |-> 0, body |-> EmptyDict]

\* The success response of lambda_handler
Success(result) == [statusCode |-> 200, body |-> result]

\* except ValueError
ValidationError(message) ==
    [statusCode |-> 400,
     body |-> [error |-> "Validation error", message |-> message]]

\* except Exception
InternalError(message) ==
    [statusCode |-> 500,
     body |-> [error |-> "Internal server error", message |-> message]]

\* What an external call may raise.  json.loads of a model's response body
\* raises JSONDecodeError, a ValueError; boto3 raises ClientError, which is not.
ProviderErrors == {"ClientError", "JSONDecodeError"}
StoreErrors == {"ClientError"}

\* `except Exception` alone: every exception answered as an internal error
ErrorResponse_AlwaysInternal(exception) == InternalError(exception)

\* The response of lambda_handler to an exception of the routed operation
ErrorResponse(exception) ==
    IF exception = "JSONDecodeError"
    THEN ValidationError(exception)
    ELSE InternalError(exception)

(**************************** request inputs *******************************)

DatasetIdArgs ==
    {EmptyDict, [dataset_id |-> ""]} \cup {[dataset_id |-> d] : d \in DatasetIds}

\* The descriptive fields of index_dataset: no branch (nothing given, or a
\* title without a description), each branch alone, and all three
IndexTexts ==
    {t \in [title       : {"", "Roman Coins"},
            description : {"", "A hoard of bronze coins"},
            abstract    : {"", "Coins of the third century"},
            keywords    : {<<>>, <<"coins", "bronze">>},
            subjects    : {<<>>, <<"numismatics">>}] :
        LET ti == t.title # ""
            de == t.description # ""
            ab == t.abstract # ""
            kw == t.keywords # <<>>
            su == t.subjects # <<>>
        IN  \/ ti /\ de /\ ab /\ kw /\ su
            \/ ~de /\ ~ab /\ ~kw /\ ~su
            \/ ti /\ de /\ ~ab /\ ~kw /\ ~su
            \/ ~ti /\ ~de /\ ab /\ ~kw /\ ~su
            \/ ~ti /\ ~de /\ ~ab /\ ~kw /\ su}

IndexParameters == {a @@ t : a \in DatasetIdArgs, t \in IndexTexts}

QueryArgs == {EmptyDict, [query |-> ""], [query |-> "ancient currency"]}
TopKArgs == {EmptyDict} \cup {[top_k |-> k] : k \in 0..MaxTopK}
ScopeArgs == {EmptyDict, [dataset_id |-> "ds-1"]}
TypeArgs == {EmptyDict, [content_type |-> "abstract"]}
AnswerArgs == {EmptyDict, [include_answer |-> FALSE]}

\* The parameters of a search.  With no query the other parameters are left out.
SearchParameters ==
    {ps \in {q @@ k @@ d @@ t @@ a :
                q \in QueryArgs, k \in TopKArgs, d \in ScopeArgs, t \in TypeArgs,
                a \in AnswerArgs} :
        Falsy(Get(ps, "query", None)) => DOMAIN ps \subseteq {"query"}}

\* The event bodies of the searches: 'query' and 'semantic_search'
SearchEvents ==
    {[operation |-> op, parameters |-> ps] :
        op \in {"query", "semantic_search"}, ps \in SearchParameters}

\* The event bodies of the writers: 'index_dataset', 'delete_dataset', and
\* an operation lambda_handler does not know
WriteEvents ==
    {[operation |-> "index_dataset", parameters |-> ps] : ps \in IndexParameters}
    \cup {[operation |-> "delete_dataset", parameters |-> ps] : ps \in DatasetIdArgs}
    \cup {[operation |-> "reindex", parameters |-> EmptyDict]}

(********************************* state ***********************************)

\* An invocation slot before its first request
Idle ==
    [pc              |-> "idle",
     operation       |-> None,
     parameters      |-> EmptyDict,
     branch          |-> 0,
     query_embedding |-> <<>>,
     embedding       |-> <<>>,
     embeddings      |-> <<>>,
     results         |-> <<>>,
     deleted_count   |-> 0,
     calls           |-> <<>>,
     response        |-> NoResponse]

\* The parameters that index every chunk of a dataset
AllFields(dataset_id) ==
    [dataset_id  |-> dataset_id,
     title       |-> "Roman Coins",
     description |-> "A hoard of bronze coins",
     abstract    |-> "Coins of the third century",
     keywords    |-> <<"coins", "bronze">>,
     subjects    |-> <<"numismatics">>]

\* The item branch b of index_dataset(params) stores at time `clock` when the
\* embedding model returns `embedding`
Chunk(params, b, embedding, clock) ==
    NewItem(EmbeddingId(params.dataset_id, b), params.dataset_id, ContentTypes[b],
            BranchContent(params, b), embedding, BranchMetadata(params, b), clock)

\* The table after index_dataset has indexed every chunk of ds-1 at time 0
Indexed ==
    LET vector == <<(<<3, 4>>), (<<4, 3, 12>>), (<<0, 0>>)>>
    IN  {Chunk(AllFields("ds-1"), b, vector[b], 0) : b \in 1..3}

\* Items earlier invocations may have left in the table: the three chunks of
\* ds-1, its metadata chunk indexed a second time, and a chunk of ds-2
Pool ==
    Indexed \cup {Chunk(AllFields("ds-1"), 1, <<3, 4>>, 1),
                  Chunk(AllFields("ds-2"), 2, <<3, 4>>, 0)}

\* The writers start on an empty table or on an indexed dataset
WriteInit ==
    /\ \/ store = {} /\ now = 0
       \/ store = Indexed /\ now = 1
    /\ nreq = 0
    /\ req = [p \in Procs |-> Idle]

\* The searches start on any table made of items of the pool
SearchInit ==
    /\ store \in SUBSET Pool
    /\ now = 1
    /\ nreq = 0
    /\ req = [p \in Procs |-> Idle]

\* The invocation of slot p returns `response`
Return(r, response) == [r EXCEPT !.pc = "done", !.response = response]

\* The arguments lambda_handler passes to semantic_search, directly
\* ('semantic_search') or through query_knowledge_base ('query')
SearchArgs(operation, parameters) ==
    IF operation = "query"
    THEN [query        |-> Get(parameters, "query", None),
          top_k        |-> Get(parameters, "top_k", QueryTopK),
          dataset_id   |-> Get(parameters, "dataset_id", None),
          content_type |-> Get(parameters, "content_type", None)]
    ELSE [query        |-> Get(parameters, "query", None),
          top_k        |-> Get(parameters, "top_k", SearchTopK),
          dataset_id   |-> Get(parameters, "dataset_id", None),
          content_type |-> None]

\* The result index_dataset returns
IndexResult(dataset_id, results) ==
    [success            |-> TRUE,
     dataset_id         |-> dataset_id,
     embeddings_created |-> Len(results),
     results            |-> results]

\* A result that reports success only when something was deleted
DeleteResult_FailsOnNone(dataset_id, deleted_count) ==
    [success |-> deleted_count > 0, dataset_id |-> dataset_id,
     deleted_count |-> deleted_count]

\* The result delete_dataset_embeddings returns
DeleteResult(dataset_id, deleted_count) ==
    [success |-> TRUE, dataset_id |-> dataset_id, deleted_count |-> deleted_count]

\* The result of a query_knowledge_base that writes `answer or None`
QueryResult_BlankAsNull(query, results, answer) ==
    [query |-> query, results |-> results,
     answer |-> IF answer = "" THEN None ELSE answer,
     total_results |-> Len(results)]

\* The result query_knowledge_base returns
QueryResult(query, results, answer) ==
    [query |-> query, results |-> results, answer |-> answer,
     total_results |-> Len(results)]

\* The result lambda_handler builds for 'semantic_search'
SearchResult(results) == [results |-> results, total_results |-> Len(results)]

\* `if not query:` of query_knowledge_base
QueryMissing(parameters) == Falsy(Get(parameters, "query", None))

\* `if dataset_id is None:`, an empty dataset_id let through
DatasetIdMissing_OnlyNone(parameters) == Get(parameters, "dataset_id", None) = None

\* `if not dataset_id:` of index_dataset and delete_dataset_embeddings
DatasetIdMissing(parameters) == Falsy(Get(parameters, "dataset_id", None))

\* The error raised without the name of the operation
UnknownOperation_Unnamed(operation) == ValidationError("Unknown operation")

\* raise ValueError(f"Unknown operation: {operation}"), as lambda_handler
\* answers it
UnknownOperation(operation) == ValidationError("Unknown operation: " \o operation)

\* lambda_handler up to the first external call of the routed operation
Route(event) ==
    LET operation == event.operation
        parameters == event.parameters
        r == [Idle EXCEPT !.operation = operation, !.parameters = parameters]
    IN  CASE operation = "index_dataset" ->
                IF DatasetIdMissing(parameters)
                THEN Return(r, ValidationError("dataset_id is required"))
                ELSE IF NextBranch(parameters, 1) > 3
                THEN Return(r, Success(IndexResult(parameters.dataset_id, <<>>)))
                ELSE [r EXCEPT !.pc = "index_embed",
                               !.branch = NextBranch(parameters, 1)]
          [] operation = "query" ->
                IF QueryMissing(parameters)
                THEN Return(r, ValidationError("query is required"))
                ELSE [r EXCEPT !.pc = "embed"]
          [] operation = "delete_dataset" ->
                IF DatasetIdMissing(parameters)
                THEN Return(r, ValidationError("dataset_id is required"))
                ELSE [r EXCEPT !.pc = "retrieve"]
          [] operation = "semantic_search" ->
                [r EXCEPT !.pc = "embed"]
          [] OTHER ->
                Return(r, UnknownOperation(operation))

(******************************** actions **********************************)

\* A lambda invocation starts in slot p, the lowest free slot
Invoke(p, events) ==
    /\ req[p].pc = "idle"
    /\ \A q \in Procs : q < p => req[q].pc # "idle"
    /\ nreq < MaxRequests
    /\ \E event \in events : req' = [req EXCEPT ![p] = Route(event)]
    /\ nreq' = nreq + 1
    /\ UNCHANGED <<store, now>>

\* generate_embedding(query) behind a cache: the vector another invocation
\* holds for the same query is taken without a call
EmbedQuery_Cached(p) ==
    /\ req[p].pc = "embed"
    /\ IF \E q \in Procs : /\ req[q].query_embedding # <<>>
                            /\ req[q].parameters = req[p].parameters
       THEN \E q \in Procs :
                /\ req[q].query_embedding # <<>>
                /\ req[q].parameters = req[p].parameters
                /\ req' = [req EXCEPT ![p] =
                            [req[p] EXCEPT !.pc = "retrieve",
                                           !.query_embedding = req[q].query_embedding]]
       ELSE LET r == [req[p] EXCEPT !.calls = Append(@, "embed")]
            IN  \/ \E v \in Vectors :
                     req' = [req EXCEPT ![p] = [r EXCEPT !.pc = "retrieve",
                                                          !.query_embedding = v]]
                \/ \E e \in ProviderErrors :
                     req' = [req EXCEPT ![p] = Return(r, ErrorResponse(e))]
    /\ UNCHANGED <<store, now, nreq>>

\* generate_embedding(query) whose failure is swallowed: the search goes on
\* without a query vector
EmbedQuery_IgnoresFailure(p) ==
    /\ req[p].pc = "embed"
    /\ LET r == [req[p] EXCEPT !.calls = Append(@, "embed")]
       IN  \/ \E v \in Vectors :
                req' = [req EXCEPT ![p] = [r EXCEPT !.pc = "retrieve",
                                                     !.query_embedding = v]]
           \/ req' = [req EXCEPT ![p] = [r EXCEPT !.pc = "retrieve"]]
    /\ UNCHANGED <<store, now, nreq>>

\* generate_embedding(query) of semantic_search
EmbedQuery(p) ==
    /\ req[p].pc = "embed"
    /\ LET r == [req[p] EXCEPT !.calls = Append(@, "embed")]
       IN  \/ \E v \in Vectors :
                req' = [req EXCEPT ![p] = [r EXCEPT !.pc = "retrieve",
                                                     !.query_embedding = v]]
           \/ \E e \in ProviderErrors :
                req' = [req EXCEPT ![p] = Return(r, ErrorResponse(e))]
    /\ UNCHANGED <<store, now, nreq>>

\* The rest of a search once the items are read: semantic_search's ranking,
\* then query_knowledge_base up to generate_answer, or the response
AfterSearchRead(r, all_embeddings) ==
    LET args == SearchArgs(r.operation, r.parameters)
        results == Rank(r.query_embedding, all_embeddings, args.top_k, args.content_type)
        r2 == [r EXCEPT !.embeddings = all_embeddings, !.results = results]
    IN  IF r.operation = "query"
        THEN IF WantsAnswer(Get(r.parameters, "include_answer", TRUE), results)
             THEN [r2 EXCEPT !.pc = "answer"]
             ELSE Return(r2, Success(QueryResult(args.query, results, None)))
        ELSE Return(r2, Success(SearchResult(results)))

\* The rest of a delete once the items are read: the loop's first iteration
\* is next, or the response when there is nothing to delete
AfterDeleteRead(r, embeddings) ==
    LET r2 == [r EXCEPT !.embeddings = embeddings, !.deleted_count = 0]
    IN  IF embeddings = <<>>
        THEN Return(r2, Success(DeleteResult(r.parameters.dataset_id, 0)))
        ELSE [r2 EXCEPT !.pc = "delete"]

\* A read that takes what it reads out of the table
Retrieve_Consuming(p) ==
    /\ req[p].pc = "retrieve"
    /\ LET r == [req[p] EXCEPT !.calls = Append(@, "retrieve")]
           dataset_id == Get(r.parameters, "dataset_id", None)
       IN  \/ \E items \in retrieve_embeddings(store, dataset_id, DefaultLimit) :
                /\ req' = [req EXCEPT ![p] =
                            IF r.operation = "delete_dataset"
                            THEN AfterDeleteRead(r, items)
                            ELSE AfterSearchRead(r, items)]
                /\ store' = store \ {items[i] : i \in 1..Len(items)}
           \/ /\ \E e \in StoreErrors :
                    req' = [req EXCEPT ![p] = Return(r, ErrorResponse(e))]
              /\ UNCHANGED store
    /\ UNCHANGED <<now, nreq>>

\* retrieve_embeddings: one read of the table, in a search or in a delete
Retrieve(p) ==
    /\ req[p].pc = "retrieve"
    /\ LET r == [req[p] EXCEPT !.calls = Append(@, "retrieve")]
           dataset_id == Get(r.parameters, "dataset_id", None)
       IN  \/ \E items \in retrieve_embeddings(store, dataset_id, DefaultLimit) :
                req' = [req EXCEPT ![p] =
                          IF r.operation = "delete_dataset"
                          THEN AfterDeleteRead(r, items)
                          ELSE AfterSearchRead(r, items)]
           \/ \E e \in StoreErrors :
                req' = [req EXCEPT ![p] = Return(r, ErrorResponse(e))]
    /\ UNCHANGED <<store, now, nreq>>

\* generate_answer(query, results) of query_knowledge_base
GenerateAnswer(p) ==
    /\ req[p].pc = "answer"
    /\ LET r == [req[p] EXCEPT !.calls = Append(@, "answer")]
       IN  \/ \E answer \in Answers :
                req' = [req EXCEPT ![p] =
                          Return(r, Success(QueryResult(r.parameters.query,
                                                        r.results, answer)))]
           \/ \E e \in ProviderErrors :
                req' = [req EXCEPT ![p] = Return(r, ErrorResponse(e))]
    /\ UNCHANGED <<store, now, nreq>>

\* generate_embedding(text) of one branch of index_dataset
EmbedChunk(p) ==
    /\ req[p].pc = "index_embed"
    /\ LET r == [req[p] EXCEPT !.calls = Append(@, "embed")]
       IN  \/ \E v \in ChunkVectors :
                req' = [req EXCEPT ![p] = [r EXCEPT !.pc = "index_put",
                                                     !.embedding = v]]
           \/ \E e \in ProviderErrors :
                req' = [req EXCEPT ![p] = Return(r, ErrorResponse(e))]
    /\ UNCHANGED <<store, now, nreq>>

\* store_embedding whose failure takes back the chunks the call has written
StoreChunk_RollsBack(p) ==
    /\ req[p].pc = "index_put"
    /\ LET r == [req[p] EXCEPT !.calls = Append(@, "put")]
           params == r.parameters
           b == r.branch
           embedding_id == EmbeddingId(params.dataset_id, b)
           item == NewItem(embedding_id, params.dataset_id, ContentTypes[b],
                           BranchContent(params, b), r.embedding,
                           BranchMetadata(params, b), now)
           results == Append(r.results, [success |-> TRUE, embedding_id |-> embedding_id])
           r2 == [r EXCEPT !.results = results, !.branch = NextBranch(params, b + 1)]
       IN  \/ /\ store' = PutItem(store, item)
              /\ req' = [req EXCEPT ![p] =
                          IF r2.branch > 3
                          THEN Return(r2, Success(IndexResult(params.dataset_id, results)))
                          ELSE [r2 EXCEPT !.pc = "index_embed"]]
           \/ /\ \E e \in StoreErrors :
                    req' = [req EXCEPT ![p] = Return(r, ErrorResponse(e))]
              /\ store' = {i \in store : \A k \in 1..Len(r.results) :
                                i.embedding_id # r.results[k].embedding_id}
    /\ UNCHANGED <<now, nreq>>

\* store_embedding behind a retry: a put that fails is made again
StoreChunk_Retries(p) ==
    /\ req[p].pc = "index_put"
    /\ LET r == [req[p] EXCEPT !.calls = Append(@, "put")]
           params == r.parameters
           b == r.branch
           embedding_id == EmbeddingId(params.dataset_id, b)
           item == NewItem(embedding_id, params.dataset_id, ContentTypes[b],
                           BranchContent(params, b), r.embedding,
                           BranchMetadata(params, b), now)
           results == Append(r.results, [success |-> TRUE, embedding_id |-> embedding_id])
           r2 == [r EXCEPT !.results = results, !.branch = NextBranch(params, b + 1)]
       IN  \/ /\ store' = PutItem(store, item)
              /\ req' = [req EXCEPT ![p] =
                          IF r2.branch > 3
                          THEN Return(r2, Success(IndexResult(params.dataset_id, results)))
                          ELSE [r2 EXCEPT !.pc = "index_embed"]]
           \/ /\ Len(r.calls) < 7
              /\ req' = [req EXCEPT ![p] = r]
              /\ UNCHANGED store
    /\ UNCHANGED <<now, nreq>>

\* store_embedding of one branch of index_dataset, then the next branch
StoreChunk(p) ==
    /\ req[p].pc = "index_put"
    /\ LET r == [req[p] EXCEPT !.calls = Append(@, "put")]
           params == r.parameters
           b == r.branch
           embedding_id == EmbeddingId(params.dataset_id, b)
           item == NewItem(embedding_id, params.dataset_id, ContentTypes[b],
                           BranchContent(params, b), r.embedding,
                           BranchMetadata(params, b), now)
           results == Append(r.results, [success |-> TRUE, embedding_id |-> embedding_id])
           r2 == [r EXCEPT !.results = results, !.branch = NextBranch(params, b + 1)]
       IN  \/ /\ store' = PutItem(store, item)
              /\ req' = [req EXCEPT ![p] =
                          IF r2.branch > 3
                          THEN Return(r2, Success(IndexResult(params.dataset_id, results)))
                          ELSE [r2 EXCEPT !.pc = "index_embed"]]
           \/ /\ \E e \in StoreErrors :
                    req' = [req EXCEPT ![p] = Return(r, ErrorResponse(e))]
              /\ UNCHANGED store
    /\ UNCHANGED <<now, nreq>>

\* The loop's iteration with a delete_item that fails when the item is gone
DeleteOne_MissingIsError(p) ==
    /\ req[p].pc = "delete"
    /\ LET r == [req[p] EXCEPT !.calls = Append(@, "delete")]
           item == r.embeddings[r.deleted_count + 1]
           r2 == [r EXCEPT !.deleted_count = @ + 1]
       IN  \/ /\ \E i \in store : Key(i) = Key(item)
              /\ store' = DeleteItem(store, Key(item))
              /\ req' = [req EXCEPT ![p] =
                          IF r2.deleted_count = Len(r.embeddings)
                          THEN Return(r2, Success(DeleteResult(r.parameters.dataset_id,
                                                               r2.deleted_count)))
                          ELSE r2]
           \/ /\ \A i \in store : Key(i) # Key(item)
              /\ req' = [req EXCEPT ![p] =
                          Return(r, ErrorResponse("ConditionalCheckFailedException"))]
              /\ UNCHANGED store
           \/ /\ \E e \in StoreErrors :
                    req' = [req EXCEPT ![p] = Return(r, ErrorResponse(e))]
              /\ UNCHANGED store
    /\ UNCHANGED <<now, nreq>>

\* One iteration of the loop of delete_dataset_embeddings
DeleteOne(p) ==
    /\ req[p].pc = "delete"
    /\ LET r == [req[p] EXCEPT !.calls = Append(@, "delete")]
           item == r.embeddings[r.deleted_count + 1]
           r2 == [r EXCEPT !.deleted_count = @ + 1]
       IN  \/ /\ store' = DeleteItem(store, Key(item))
              /\ req' = [req EXCEPT ![p] =
                          IF r2.deleted_count = Len(r.embeddings)
                          THEN Return(r2, Success(DeleteResult(r.parameters.dataset_id,
                                                               r2.deleted_count)))
                          ELSE r2]
           \/ /\ \E e \in StoreErrors :
                    req' = [req EXCEPT ![p] = Return(r, ErrorResponse(e))]
              /\ UNCHANGED store
    /\ UNCHANGED <<now, nreq>>

\* The invocation of slot p is over: its response is delivered and the slot
\* is free for the next invocation, which shares nothing with this one
Finish(p) ==
    /\ req[p].pc = "done"
    /\ req' = [req EXCEPT ![p] = Idle]
    /\ UNCHANGED <<store, now, nreq>>

\* Time passes: the next datetime.utcnow() differs
Tick ==
    /\ now < MaxClock
    /\ now' = now + 1
    /\ UNCHANGED <<store, nreq, req>>

\* The searches: one invocation at a time, against a table nobody writes
SearchNext ==
    \/ Invoke(1, SearchEvents)
    \/ EmbedQuery(1)
    \/ Retrieve(1)
    \/ GenerateAnswer(1)
    \/ Finish(1)

SearchSpec == SearchInit /\ [][SearchNext]_vars

\* The writers: index_dataset and delete_dataset, one invocation at a time
WriteNext ==
    \/ Invoke(1, WriteEvents)
    \/ EmbedChunk(1)
    \/ StoreChunk(1)
    \/ Retrieve(1)
    \/ DeleteOne(1)
    \/ Finish(1)
    \/ Tick

WriteSpec == WriteInit /\ [][WriteNext]_vars

\* The event bodies of the writers that reach the table: index_dataset of
\* ds-1 with its abstract alone or with every field, delete_dataset with a
\* dataset_id
ConcurrentEvents ==
    {e \in WriteEvents :
        /\ e.operation \in {"index_dataset", "delete_dataset"}
        /\ ~DatasetIdMissing(e.parameters)
        /\ e.operation = "index_dataset" =>
              /\ e.parameters.dataset_id = "ds-1"
              /\ BranchTaken(e.parameters, 2)
              /\ BranchTaken(e.parameters, 1) = BranchTaken(e.parameters, 3)}

\* The writers, as concurrent invocations
ConcurrentNext ==
    \/ \E p \in Procs : Invoke(p, ConcurrentEvents)
    \/ \E p \in Procs : EmbedChunk(p)
    \/ \E p \in Procs : StoreChunk(p)
    \/ \E p \in Procs : Retrieve(p)
    \/ \E p \in Procs : DeleteOne(p)
    \/ \E p \in Procs : Finish(p)
    \/ Tick

\* The concurrent writers start on an empty table, on an indexed dataset, or
\* on an indexed dataset beside a chunk of another one
ConcurrentInit ==
    \/ WriteInit
    \/ /\ store = Indexed \cup {Chunk(AllFields("ds-2"), 2, <<3, 4>>, 0)}
       /\ now = 1
       /\ nreq = 0
       /\ req = [p \in Procs |-> Idle]

ConcurrentSpec == ConcurrentInit /\ [][ConcurrentNext]_vars

\* The searches that name at most a query
PlainSearchEvents == {e \in SearchEvents : DOMAIN e.parameters \subseteq {"query"}}

\* The event bodies of every route of lambda_handler: those of the writers,
\* and the searches that name at most a query
HandlerEvents == WriteEvents \cup PlainSearchEvents

\* Every operation of lambda_handler, one invocation at a time
HandlerNext ==
    \/ Invoke(1, HandlerEvents)
    \/ EmbedQuery(1)
    \/ EmbedChunk(1)
    \/ StoreChunk(1)
    \/ Retrieve(1)
    \/ GenerateAnswer(1)
    \/ DeleteOne(1)
    \/ Finish(1)
    \/ Tick

HandlerSpec == WriteInit /\ [][HandlerNext]_vars

\* Searches that follow or overlap one another, on the indexed dataset
RepeatInit ==
    /\ store = Indexed
    /\ now = 1
    /\ nreq = 0
    /\ req = [p \in Procs |-> Idle]

RepeatNext ==
    \/ \E p \in Procs : Invoke(p, PlainSearchEvents)
    \/ \E p \in Procs : EmbedQuery(p)
    \/ \E p \in Procs : Retrieve(p)
    \/ \E p \in Procs : GenerateAnswer(p)
    \/ \E p \in Procs : Finish(p)

RepeatSpec == RepeatInit /\ [][RepeatNext]_vars

\* The event bodies of a session on one dataset: index_dataset and
\* delete_dataset of ds-1, and the searches for a query scoped to ds-1
SessionEvents ==
    {e \in WriteEvents \cup SearchEvents :
        /\ e.operation \in {"index_dataset", "delete_dataset", "query", "semantic_search"}
        /\ "dataset_id" \in DOMAIN e.parameters
        /\ e.parameters.dataset_id = "ds-1"
        /\ DOMAIN e.parameters \cap {"content_type", "include_answer"} = {}}

\* Writes and scoped searches of one dataset, one invocation at a time
SessionNext ==
    \/ Invoke(1, SessionEvents)
    \/ EmbedQuery(1)
    \/ EmbedChunk(1)
    \/ StoreChunk(1)
    \/ Retrieve(1)
    \/ GenerateAnswer(1)
    \/ DeleteOne(1)
    \/ Finish(1)
    \/ Tick

SessionSpec == WriteInit /\ [][SessionNext]_vars

(****************************** the claims *********************************)

Searches == {"query", "semantic_search"}

\* The invocation of slot p has returned a success response
Succeeded(p) == req[p].pc = "done" /\ req[p].response.statusCode = 200

\* The invocation of slot p is a search that has returned a result list
SearchReturned(p) == req[p].operation \in Searches /\ Succeeded(p)

NonIncreasing(results) ==
    \A i \in 1..Len(results) - 1 : results[i].similarity >= results[i + 1].similarity

\* C1: the similarity scores of every result list semantic_search returns,
\* and of every result list in a response, are non-increasing from the first
\* entry to the last.
C1_ResultsNonIncreasing ==
    \A p \in Procs :
        /\ req[p].operation \in Searches => NonIncreasing(req[p].results)
        /\ SearchReturned(p) => NonIncreasing(req[p].response.body.results)

\* C1's case: a search returned two results of different similarity that the
\* table had enumerated the other way round.
C1_Witness ==
    \E p \in Procs :
        /\ SearchReturned(p)
        /\ Len(req[p].response.body.results) = 2
        /\ req[p].response.body.results[1].similarity
              > req[p].response.body.results[2].similarity
        /\ Len(req[p].embeddings) = 2
        /\ req[p].response.body.results[1].embedding_id = req[p].embeddings[2].embedding_id
        /\ req[p].response.body.results[1].embedding_id # req[p].embeddings[1].embedding_id

\* The stored items in the scope of the search of slot p: those of its
\* dataset_id, if it names one, and of its content_type, if it names one
InScope(p) ==
    LET args == SearchArgs(req[p].operation, req[p].parameters)
    IN  {s \in Matching(store, args.dataset_id) :
            Falsy(args.content_type) \/ s.content_type = args.content_type}

\* C2: whatever the number of stored items, no stored item in the scope of a
\* search that is left out of its results is more similar to the query than
\* a result it returned.  (Stated for tables whose vectors all have the
\* dimension of the query vector, where the similarity is not in doubt.)
C2_TopKOfAllStored ==
    \A p \in Procs :
        (/\ SearchReturned(p)
         /\ \A s \in store : Len(s.embedding) = Len(req[p].query_embedding)) =>
            \A s \in InScope(p) :
                LET mine == Result(s, req[p].query_embedding)
                    results == req[p].response.body.results
                IN  (\A i \in 1..Len(results) : results[i] # mine) =>
                        \A i \in 1..Len(results) :
                            results[i].similarity >= mine.similarity

\* C4: a query whose result list is empty never calls the answer model, and
\* its response carries no results, total_results 0 and a null answer.
C4_NoAnswerWithoutResults ==
    \A p \in Procs :
        req[p].operation = "query" =>
            /\ req[p].pc = "answer" => req[p].results # <<>>
            /\ (\E i \in 1..Len(req[p].calls) : req[p].calls[i] = "answer")
                  => req[p].results # <<>>
            /\ Succeeded(p) /\ req[p].response.body.results = <<>> =>
                  /\ req[p].response.body.answer = None
                  /\ req[p].response.body.total_results = 0

\* C4's case: a query that asks for an answer (include_answer left at its
\* default) and for at least one result, scoped to a dataset that has no
\* item in a table that has items, has returned.
C4_Witness ==
    \E p \in Procs :
        /\ req[p].operation = "query"
        /\ Succeeded(p)
        /\ "include_answer" \notin DOMAIN req[p].parameters
        /\ Get(req[p].parameters, "top_k", QueryTopK) >= 1
        /\ "dataset_id" \in DOMAIN req[p].parameters
        /\ store # {}
        /\ Matching(store, req[p].parameters.dataset_id) = {}
        /\ req[p].response.body.results = <<>>
        /\ req[p].response.body.answer = None

\* A search request that names no query, or an empty one
NoQuery(p) ==
    /\ req[p].operation \in Searches
    /\ req[p].pc # "idle"
    /\ ("query" \notin DOMAIN req[p].parameters \/ req[p].parameters.query = "")

\* C5: a search request without a query makes no external call and ends in a
\* validation error, for 'query' and for 'semantic_search'.
C5_NoQueryFailsValidation ==
    \A p \in Procs :
        NoQuery(p) =>
            /\ req[p].calls = <<>>
            /\ req[p].pc = "done" => req[p].response = ValidationError("query is required")

\* The items a search scored: those it read, less those its filter dropped
Scored(p) ==
    LET all == FilterByType(req[p].embeddings,
                            SearchArgs(req[p].operation, req[p].parameters).content_type)
    IN  {all[i] : i \in 1..Len(all)}

\* C7: no search returns a similarity computed from a stored vector of
\* another length than the query vector.
C7_NoSimilarityFromMismatch ==
    \A p \in Procs :
        SearchReturned(p) =>
            \A item \in Scored(p) :
                Len(item.embedding) # Len(req[p].query_embedding) =>
                    \A i \in 1..Len(req[p].response.body.results) :
                        req[p].response.body.results[i]
                            # Result(item, req[p].query_embedding)

\* C10: when a search request names a content_type, every result returned
\* has that content_type, for 'query' and for 'semantic_search'.
C10_ResultsOfRequestedType ==
    \A p \in Procs :
        (SearchReturned(p) /\ "content_type" \in DOMAIN req[p].parameters) =>
            \A i \in 1..Len(req[p].response.body.results) :
                req[p].response.body.results[i].content_type
                    = req[p].parameters.content_type

Writers == {"index_dataset", "delete_dataset"}

\* C3: the table holds at most one item per embedding_id: a write with an
\* embedding_id already stored replaces the item that has it.
C3_OneItemPerEmbeddingId ==
    \A i, j \in store : i.embedding_id = j.embedding_id => i = j

\* A writer's request that names no dataset_id, or an empty one
NoDatasetId(r) ==
    /\ r.operation \in Writers
    /\ r.pc # "idle"
    /\ ("dataset_id" \notin DOMAIN r.parameters \/ r.parameters.dataset_id = "")

\* C6: index_dataset and delete_dataset without a dataset_id make no external
\* call and end in a validation error, and the table is what it was before.
C6_NoDatasetIdFailsValidation ==
    /\ [](\A p \in Procs :
            NoDatasetId(req[p]) =>
                /\ req[p].calls = <<>>
                /\ req[p].pc = "done"
                /\ req[p].response = ValidationError("dataset_id is required"))
    /\ [][\A p \in Procs :
            (NoDatasetId(req[p]') /\ req[p]' # req[p]) => store' = store]_vars

\* C6's case: index_dataset with every descriptive field and an empty
\* dataset_id has returned on a table that holds items.
C6_Witness ==
    /\ store # {}
    /\ \E p \in Procs :
        /\ req[p].operation = "index_dataset"
        /\ req[p].pc = "done"
        /\ "dataset_id" \in DOMAIN req[p].parameters
        /\ req[p].parameters.dataset_id = ""
        /\ NextBranch(req[p].parameters, 1) = 1
        /\ req[p].response.statusCode = 400

\* C8: once delete_dataset(D) has returned success, no item of D is left in
\* the table, however many items D had.
C8_DeleteLeavesNothing ==
    \A p \in Procs :
        (req[p].operation = "delete_dataset" /\ Succeeded(p)) =>
            \A i \in store : i.dataset_id # req[p].parameters.dataset_id

\* C9: the response of an index_dataset that wrote chunks carries their
\* number as embeddings_created, and the response of a delete_dataset that
\* removed items carries their number as deleted_count, also when a later
\* call of the request failed.
C9_PartialSuccessIsCounted ==
    \A p \in Procs :
        req[p].pc = "done" =>
            /\ (req[p].operation = "index_dataset" /\ Len(req[p].results) > 0) =>
                  /\ "embeddings_created" \in DOMAIN req[p].response.body
                  /\ req[p].response.body.embeddings_created = Len(req[p].results)
            /\ (req[p].operation = "delete_dataset" /\ req[p].deleted_count > 0) =>
                  /\ "deleted_count" \in DOMAIN req[p].response.body
                  /\ req[p].response.body.deleted_count = req[p].deleted_count

\* The search of slot p names a dataset_id (a non-empty one)
Scoped(p) ==
    /\ req[p].operation \in Searches
    /\ "dataset_id" \in DOMAIN req[p].parameters
    /\ req[p].parameters.dataset_id # ""

\* C11: when a search request names a dataset_id, every item it reads as a
\* candidate, every result it ranks and every result of its response has
\* that dataset_id.
C11_ResultsOfRequestedDataset ==
    \A p \in Procs :
        Scoped(p) =>
            /\ \A i \in 1..Len(req[p].embeddings) :
                  req[p].embeddings[i].dataset_id = req[p].parameters.dataset_id
            /\ \A i \in 1..Len(req[p].results) :
                  req[p].results[i].dataset_id = req[p].parameters.dataset_id
            /\ Succeeded(p) =>
                  \A i \in 1..Len(req[p].response.body.results) :
                      req[p].response.body.results[i].dataset_id
                          = req[p].parameters.dataset_id

\* C11's case: a search scoped to ds-1 has returned a result while the table
\* holds an item of ds-2 at least as similar to the query as that result.
C11_Witness ==
    \E p \in Procs :
        /\ Scoped(p)
        /\ Succeeded(p)
        /\ req[p].parameters.dataset_id = "ds-1"
        /\ req[p].response.body.results # <<>>
        /\ \E s \in store :
              /\ s.dataset_id = "ds-2"
              /\ cosine_similarity(req[p].query_embedding, s.embedding)
                    >= req[p].response.body.results[1].similarity

\* The number of candidates of the search of slot p: the items its read
\* returned that have the content_type semantic_search was called with,
\* if it was called with one
Candidates(p) ==
    LET content_type == SearchArgs(req[p].operation, req[p].parameters).content_type
    IN  Cardinality({i \in 1..Len(req[p].embeddings) :
            content_type \in {None, ""}
                \/ req[p].embeddings[i].content_type = content_type})

\* C12: a search with a non-negative top_k that returns, returns
\* min(top_k, number of candidates) results (none when there is no candidate)
\* and total_results is their number; a search only fails with the error of
\* one of its external calls or for want of a query.
C12_ReturnsMinOfTopKAndCandidates ==
    \A p \in Procs :
        LET top_k == SearchArgs(req[p].operation, req[p].parameters).top_k
        IN  (req[p].operation \in Searches /\ req[p].pc = "done" /\ top_k >= 0) =>
                IF req[p].response.statusCode = 200
                THEN /\ Len(req[p].response.body.results)
                            = IF top_k <= Candidates(p) THEN top_k ELSE Candidates(p)
                     /\ Candidates(p) = 0 => req[p].response.body.results = <<>>
                     /\ req[p].response.body.total_results
                            = Len(req[p].response.body.results)
                ELSE req[p].response.body.message
                        \in ProviderErrors \cup StoreErrors \cup {"query is required"}

\* C12's case: a search asked for more results than it had candidates, some
\* of the items it read being dropped by its filter, and returned them all.
C12_Witness ==
    \E p \in Procs :
        /\ SearchReturned(p)
        /\ Candidates(p) >= 1
        /\ Candidates(p) < Len(req[p].embeddings)
        /\ SearchArgs(req[p].operation, req[p].parameters).top_k > Candidates(p)
        /\ Len(req[p].response.body.results) = Candidates(p)
        /\ req[p].response.body.total_results = Candidates(p)

ChunkTypes == {"metadata", "abstract", "keywords"}

\* The chunk types index_dataset(params) is to write
Satisfied(params) ==
    {type \in ChunkTypes :
        \/ type = "metadata" /\ params.title # "" /\ params.description # ""
        \/ type = "abstract" /\ params.abstract # ""
        \/ type = "keywords" /\ (params.keywords # <<>> \/ params.subjects # <<>>)}

\* The number of calls of one kind a request has made
Count(calls, kind) == Cardinality({i \in 1..Len(calls) : calls[i] = kind})

\* C13: an index_dataset that succeeds reports one result per satisfied
\* branch, '{dataset_id}#metadata', '#abstract', '#keywords', has made one
\* provider call and one store call for each (none when no branch is
\* satisfied), and the table holds an item of that id, type and dataset for
\* each; every write of index_dataset adds one item, that of a satisfied
\* branch, and removes at most the item it replaces.
C13_OneChunkPerSatisfiedBranch ==
    /\ [](\A p \in Procs :
            (req[p].operation = "index_dataset" /\ Succeeded(p)) =>
                LET params == req[p].parameters
                    body == req[p].response.body
                IN  /\ body.embeddings_created = Cardinality(Satisfied(params))
                    /\ Len(body.results) = Cardinality(Satisfied(params))
                    /\ {body.results[i].embedding_id : i \in 1..Len(body.results)}
                          = {params.dataset_id \o "#" \o type : type \in Satisfied(params)}
                    /\ Count(req[p].calls, "embed") = Cardinality(Satisfied(params))
                    /\ Count(req[p].calls, "put") = Cardinality(Satisfied(params))
                    /\ Len(req[p].calls) = 2 * Cardinality(Satisfied(params))
                    /\ \A type \in Satisfied(params) :
                          \E item \in store :
                              /\ item.embedding_id = params.dataset_id \o "#" \o type
                              /\ item.content_type = type
                              /\ item.dataset_id = params.dataset_id)
    /\ [][\A p \in Procs :
            (req[p].operation = "index_dataset" /\ req[p]' # req[p] /\ store' # store) =>
                \E item \in store' : \E type \in Satisfied(req[p].parameters) :
                      /\ store' \ store = {item}
                      /\ \A old \in store \ store' :
                            /\ old.embedding_id = item.embedding_id
                            /\ old.created_at = item.created_at
                      /\ item.embedding_id = req[p].parameters.dataset_id \o "#" \o type
                      /\ item.content_type = type
                      /\ item.dataset_id = req[p].parameters.dataset_id]_vars

\* C13's case: index_dataset of ds-1 with an abstract alone has succeeded on
\* a table that held the three chunks of ds-1; it created one embedding and
\* the table holds four items.
C13_Witness ==
    \E p \in Procs :
        /\ req[p].operation = "index_dataset"
        /\ Succeeded(p)
        /\ Satisfied(req[p].parameters) = {"abstract"}
        /\ req[p].parameters.dataset_id = "ds-1"
        /\ req[p].response.body.embeddings_created = 1
        /\ Indexed \subseteq store
        /\ Cardinality(store) = 4

\* The index_dataset of slot p has failed after it wrote a chunk
FailedAfterWrite(r) ==
    /\ r.operation = "index_dataset"
    /\ r.pc = "done"
    /\ r.response.statusCode # 200
    /\ r.results # <<>>

\* C14: when index_dataset fails in a later branch, the step that fails
\* leaves the table as it was, so the failed branch writes nothing, and the
\* chunks of the earlier branches are in the table when the error is returned.
C14_NoRollback ==
    /\ [](\A p \in Procs :
            FailedAfterWrite(req[p]) =>
                \A k \in 1..Len(req[p].results) :
                    \E item \in store :
                        /\ item.embedding_id = req[p].results[k].embedding_id
                        /\ item.dataset_id = req[p].parameters.dataset_id)
    /\ [][\A p \in Procs :
            (FailedAfterWrite(req[p]') /\ req[p].pc # "done") => store' = store]_vars

\* C14's case: on an empty table index_dataset wrote its first chunk and its
\* store call failed in the next branch: the table holds the first chunk
\* and nothing else.
C14_Witness ==
    \E p \in Procs :
        /\ FailedAfterWrite(req[p])
        /\ req[p].calls = <<"embed", "put", "embed", "put">>
        /\ req[p].response.statusCode = 500
        /\ Len(req[p].results) = 1
        /\ Cardinality(store) = 1
        /\ \A item \in store : item.embedding_id = req[p].results[1].embedding_id

Operations == {"index_dataset", "query", "delete_dataset", "semantic_search"}

\* A request whose operation lambda_handler does not know
Unknown(r) == r.pc # "idle" /\ r.operation \notin Operations

\* C15: a request with an unknown operation makes no external call and ends
\* in a validation error (status 400) whose message names the operation, and
\* the table is what it was before.
C15_UnknownOperationFailsValidation ==
    /\ [](\A p \in Procs :
            Unknown(req[p]) =>
                /\ req[p].calls = <<>>
                /\ req[p].pc = "done"
                /\ req[p].response.statusCode = 400
                /\ req[p].response.body.error = "Validation error"
                /\ req[p].response.body.message
                      = "Unknown operation: " \o req[p].operation)
    /\ [][\A p \in Procs :
            (Unknown(req[p]') /\ req[p]' # req[p]) => store' = store]_vars

\* C15's case: the operation 'reindex' has been answered on a table that
\* holds items.
C15_Witness ==
    /\ store # {}
    /\ \E p \in Procs :
        /\ req[p].operation = "reindex"
        /\ req[p].pc = "done"
        /\ req[p].response.statusCode = 400

\* The messages of the ValueErrors a request can raise: those the code
\* raises itself, and json.loads's for a response body that is not JSON
ValueErrorMessages(r) ==
    {"dataset_id is required", "query is required", "JSONDecodeError",
     "Unknown operation: " \o r.operation}

\* The fields of the result of each operation
ResultFields(operation) ==
    CASE operation = "index_dataset" ->
            {"success", "dataset_id", "embeddings_created", "results"}
      [] operation = "delete_dataset" -> {"success", "dataset_id", "deleted_count"}
      [] operation = "query" -> {"query", "results", "answer", "total_results"}
      [] operation = "semantic_search" -> {"results", "total_results"}
      [] OTHER -> {}

\* C16: an invocation has no response before it ends, and ends with one
\* response that is not replaced: status 200 with the result of its
\* operation, or status 400 with the error kind 'Validation error' and the
\* message of a ValueError, or status 500 with the error kind 'Internal
\* server error' and the message of another failure of a call.
C16_OneOfThreeOutcomes ==
    /\ [](\A p \in Procs :
            LET r == req[p]
                body == r.response.body
            IN  IF r.pc # "done"
                THEN r.response = NoResponse
                ELSE \/ /\ r.response.statusCode = 200
                        /\ r.operation \in Operations
                        /\ DOMAIN body = ResultFields(r.operation)
                     \/ /\ r.response.statusCode = 400
                        /\ DOMAIN body = {"error", "message"}
                        /\ body.error = "Validation error"
                        /\ body.message \in ValueErrorMessages(r)
                     \/ /\ r.response.statusCode = 500
                        /\ DOMAIN body = {"error", "message"}
                        /\ body.error = "Internal server error"
                        /\ body.message \in (ProviderErrors \cup StoreErrors)
                                                \ ValueErrorMessages(r))
    /\ [][\A p \in Procs :
            (req[p].pc = "done" /\ req[p]'.pc = "done") =>
                req[p]'.response = req[p].response]_vars

\* C16's case: a search whose second call, the read of the table, failed
\* has been answered with status 500.
C16_Witness ==
    \E p \in Procs :
        /\ req[p].operation \in Searches
        /\ req[p].pc = "done"
        /\ req[p].calls = <<"embed", "retrieve">>
        /\ req[p].response = InternalError("ClientError")

\* C17: the created_at stored for an embedding_id never changes: no write
\* leaves the table with an item of an embedding_id it already held under
\* another created_at.
C17_CreatedAtImmutable ==
    [][\A old \in store : \A new \in store' :
            new.embedding_id = old.embedding_id => new.created_at = old.created_at]_vars

\* The delete_dataset of slot p is about to read a table that holds no item
\* of its dataset
DeletesNothing(p) ==
    /\ req[p].operation = "delete_dataset"
    /\ req[p].pc = "retrieve"
    /\ \A item \in store : item.dataset_id # req[p].parameters.dataset_id

\* C18: delete_dataset of a dataset that has no item in the table ends with
\* its read: unless the read itself fails, the response is a success with
\* deleted_count 0; no delete call is made and the table is unchanged.
C18_DeleteOfNothingSucceeds ==
    [][\A p \in Procs :
        (DeletesNothing(p) /\ req[p]' # req[p]) =>
            /\ store' = store
            /\ req[p]'.pc = "done"
            /\ req[p]'.calls = <<"retrieve">>
            /\ \/ req[p]'.response = InternalError("ClientError")
               \/ /\ req[p]'.response.statusCode = 200
                  /\ req[p]'.response.body.success = TRUE
                  /\ req[p]'.response.body.dataset_id = req[p].parameters.dataset_id
                  /\ req[p]'.response.body.deleted_count = 0]_vars

\* C18's case: delete_dataset of ds-2 has returned success with
\* deleted_count 0 on a table that holds the chunks of ds-1.
C18_Witness ==
    \E p \in Procs :
        /\ req[p].operation = "delete_dataset"
        /\ Succeeded(p)
        /\ req[p].parameters.dataset_id = "ds-2"
        /\ req[p].response.body.deleted_count = 0
        /\ store = Indexed

\* The delete_dataset of slot p is about to delete an item that is no
\* longer in the table
DeletesAbsent(p) ==
    /\ req[p].operation = "delete_dataset"
    /\ req[p].pc = "delete"
    /\ \A item \in store :
          Key(item) # Key(req[p].embeddings[req[p].deleted_count + 1])

\* C19: a delete_dataset never ends in an error other than that of a store
\* call that failed by itself; its delete of an item that is no longer in
\* the table leaves the table as it is and, unless the store call fails,
\* counts as a deletion like any other.
C19_DeleteOfAbsentIsNoError ==
    /\ [](\A p \in Procs :
            (req[p].operation = "delete_dataset" /\ req[p].pc = "done") =>
                \/ req[p].response.statusCode = 200
                \/ /\ req[p].response.statusCode = 500
                   /\ req[p].response.body.message \in StoreErrors)
    /\ [][\A p \in Procs :
            (DeletesAbsent(p) /\ req[p]' # req[p]) =>
                /\ store' = store
                /\ \/ req[p]'.response.statusCode = 500
                   \/ req[p]'.deleted_count = req[p].deleted_count + 1]_vars

\* C19's case: two delete_dataset requests of the same dataset have both
\* returned success, each with the count of the two items both had read,
\* and the table of three items has lost those two.
C19_Witness ==
    /\ \A p \in Procs :
        /\ req[p].operation = "delete_dataset"
        /\ Succeeded(p)
        /\ req[p].parameters.dataset_id = "ds-1"
        /\ req[p].embeddings = req[1].embeddings
        /\ req[p].response.body.deleted_count = 2
        /\ \A i \in 1..2 : req[p].embeddings[i] \in Indexed \ store
    /\ Cardinality(store) = 1

\* C20: a search calls the embedding model once, as its first call: a search
\* that is past that call, or has ended otherwise than for want of a query,
\* has exactly one such call in its log, whatever searches came before it.
C20_OneEmbeddingCallPerSearch ==
    \A p \in Procs :
        req[p].operation \in Searches =>
            /\ Count(req[p].calls, "embed") <= 1
            /\ (\/ req[p].pc \in {"retrieve", "answer"}
                \/ /\ req[p].pc = "done"
                   /\ req[p].response # ValidationError("query is required")) =>
                  /\ Count(req[p].calls, "embed") = 1
                  /\ req[p].calls[1] = "embed"

\* C20's case: two searches with the same query have both returned, the
\* second invoked when the first held its results, each after one call of
\* the embedding model of its own.
C20_Witness ==
    /\ \A p \in Procs :
        /\ SearchReturned(p)
        /\ req[p].operation = req[1].operation
        /\ req[p].parameters = [query |-> "ancient currency"]
        /\ Count(req[p].calls, "embed") = 1
    /\ req[1].query_embedding # req[2].query_embedding

\* calls is an initial part of order
IsPrefix(calls, order) ==
    /\ Len(calls) <= Len(order)
    /\ \A i \in 1..Len(calls) : calls[i] = order[i]

\* C21: the external calls of a search come in the order embedding, read,
\* answer: the read is only made by a request that holds the vector its
\* embedding call returned, the answer model is only called by a request
\* that holds its ranked results, and a request whose embedding call failed
\* ends with that call.
C21_CallsInOrder ==
    \A p \in Procs :
        req[p].operation \in Searches =>
            /\ IsPrefix(req[p].calls, <<"embed", "retrieve", "answer">>)
            /\ (req[p].pc = "retrieve" \/ Len(req[p].calls) >= 2) =>
                  req[p].query_embedding \in Vectors
            /\ (req[p].pc = "answer" \/ Len(req[p].calls) = 3) =>
                  /\ req[p].operation = "query"
                  /\ req[p].results # <<>>
                  /\ NonIncreasing(req[p].results)
            /\ req[p].query_embedding = <<>> => Len(req[p].calls) <= 1

\* C21's case: a query has returned after its three calls, the answer model
\* called on two ranked results of different similarity.
C21_Witness ==
    \E p \in Procs :
        /\ req[p].operation = "query"
        /\ Succeeded(p)
        /\ req[p].calls = <<"embed", "retrieve", "answer">>
        /\ Len(req[p].results) = 2
        /\ req[p].results[1].similarity > req[p].results[2].similarity

\* The request has ended in an error after it made a call
Failed(r) == r.pc = "done" /\ r.response.statusCode # 200 /\ r.calls # <<>>

\* C22: a request makes each of its calls once: its call log is that of the
\* steps it has completed, with one more call, or two for a branch of
\* index_dataset whose embedding succeeded and whose put failed, when it
\* has failed; a failed request carries the error of a call as its payload,
\* and a request that has ended makes no further call.
C22_NoRetry ==
    /\ [](\A p \in Procs :
            LET r == req[p]
                n == Len(r.calls)
                written == Len(r.results)
            IN  /\ r.operation = "index_dataset" =>
                      /\ \A i \in 1..n :
                            r.calls[i] = IF i % 2 = 1 THEN "embed" ELSE "put"
                      /\ IF Failed(r)
                         THEN n \in {2 * written + 1, 2 * written + 2}
                         ELSE n = 2 * written + (IF r.pc = "index_put" THEN 1 ELSE 0)
                /\ r.operation = "delete_dataset" =>
                      /\ \A i \in 1..n :
                            r.calls[i] = IF i = 1 THEN "retrieve" ELSE "delete"
                      /\ IF Failed(r)
                         THEN n \in {1, r.deleted_count + 2}
                         ELSE n = IF r.pc = "delete" \/ Succeeded(p)
                                  THEN 1 + r.deleted_count ELSE 0
                /\ r.operation \in Searches =>
                      IsPrefix(r.calls, <<"embed", "retrieve", "answer">>)
                /\ Failed(r) =>
                      /\ r.response.statusCode \in {400, 500}
                      /\ r.response.body.message \in ProviderErrors \cup StoreErrors)
    /\ [][\A p \in Procs :
            req[p].pc = "done" => (req[p]' = req[p] \/ req[p]' = Idle)]_vars

\* C22's case: the embedding call of the second branch of an index_dataset
\* failed: the request ended with an error payload after three calls.
C22_Witness ==
    \E p \in Procs :
        /\ req[p].operation = "index_dataset"
        /\ Failed(req[p])
        /\ req[p].calls = <<"embed", "put", "embed">>
        /\ req[p].response = InternalError("ClientError")

\* The entries the search of slot p scored, in the order the table
\* enumerated their items
ScoredInOrder(p) ==
    LET kept == FilterByType(req[p].embeddings,
                             SearchArgs(req[p].operation, req[p].parameters).content_type)
    IN  [i \in 1..Len(kept) |-> Result(kept[i], req[p].query_embedding)]

\* The entries of a result list that have a given similarity, in their order
WithSimilarity(results, similarity) ==
    SelectSeq(results, LAMBDA r : r.similarity = similarity)

\* C23: the returned results of one similarity are, in their order, the
\* first of the scored entries of that similarity in the order the table
\* enumerated them.
C23_TiesKeepEnumerationOrder ==
    \A p \in Procs :
        SearchReturned(p) =>
            \A i \in 1..Len(req[p].response.body.results) :
                LET similarity == req[p].response.body.results[i].similarity
                IN  IsPrefix(WithSimilarity(req[p].response.body.results, similarity),
                             WithSimilarity(ScoredInOrder(p), similarity))

\* C23's case: a search has returned two different results of the same
\* non-zero similarity.
C23_Witness ==
    \E p \in Procs :
        /\ SearchReturned(p)
        /\ Len(req[p].response.body.results) = 2
        /\ req[p].response.body.results[1] # req[p].response.body.results[2]
        /\ req[p].response.body.results[1].similarity
              = req[p].response.body.results[2].similarity
        /\ req[p].response.body.results[1].similarity > 0
        /\ req[p].response.body.results[1].embedding_id = req[p].embeddings[1].embedding_id

\* A vector of zero magnitude
IsZero(vec) == \A i \in 1..Len(vec) : vec[i] = 0

\* C24: cosine_similarity is 0 whenever one of its vectors has zero
\* magnitude; a search whose query vector has zero magnitude returns, with
\* similarity 0 each, the first top_k of its candidates in the order the
\* table enumerated them, and an item of zero magnitude is scored 0 by
\* every search.
C24_ZeroVectorScoresZero ==
    /\ \A vec1, vec2 \in Vectors \cup {<<>>} :
          (IsZero(vec1) \/ IsZero(vec2)) =>
              cosine_similarity(vec1, vec2) = 0 /\ cosine_similarity(vec2, vec1) = 0
    /\ \A p \in Procs :
          SearchReturned(p) =>
              LET results == req[p].response.body.results
                  top_k == SearchArgs(req[p].operation, req[p].parameters).top_k
              IN  /\ IsZero(req[p].query_embedding) =>
                        /\ \A i \in 1..Len(results) : results[i].similarity = 0
                        /\ IsPrefix(results, ScoredInOrder(p))
                        /\ Len(results) = Min(top_k, Candidates(p))
                  /\ \A i \in 1..Len(results) :
                        (\A item \in Scored(p) :
                            item.embedding_id = results[i].embedding_id
                                => IsZero(item.embedding))
                            => results[i].similarity = 0

\* C24's case: a search whose query vector is zero has returned the first
\* of the two items it read, the second being an item of another vector.
C24_Witness ==
    \E p \in Procs :
        /\ SearchReturned(p)
        /\ req[p].query_embedding = <<0, 0>>
        /\ Len(req[p].embeddings) = 2
        /\ req[p].embeddings[1].embedding /= req[p].embeddings[2].embedding
        /\ Len(req[p].response.body.results) = 1
        /\ req[p].response.body.results[1] = Result(req[p].embeddings[1], <<0, 0>>)
        /\ req[p].response.body.results[1].similarity = 0

\* The search of slot p, scoped to a dataset, asks for at least one result
ScopedSearch(p) ==
    /\ Scoped(p)
    /\ SearchArgs(req[p].operation, req[p].parameters).top_k >= 1

C26_CountsWhatItRemoved ==
    [][\A p \in Procs :
        (/\ req[p].operation = "delete_dataset"
         /\ req[p]'.operation = "delete_dataset"
         /\ req[p]'.deleted_count = req[p].deleted_count + 1) =>
            /\ store' \subseteq store
            /\ Cardinality(store') = Cardinality(store) - 1]_vars

\* C27: delete_dataset takes out of the table the items it has read, one
\* key per step, and nothing else: an item only leaves the table in the step
\* of a delete_dataset that is at its key in the list it read (or for the
\* item a put stores under its key).  What index_dataset writes after that
\* read stays, so an index_dataset and a delete_dataset of one dataset can
\* both succeed and leave a part of the chunks the index wrote.
C27_DeleteTakesWhatItRead ==
    [][\A item \in store \ store' :
        \/ \E new \in store' : Key(new) = Key(item)
        \/ \E p \in Procs :
              /\ req[p].operation = "delete_dataset"
              /\ req[p].pc = "delete"
              /\ Key(req[p].embeddings[req[p].deleted_count + 1]) = Key(item)
              /\ req[p]'.deleted_count = req[p].deleted_count + 1]_vars

\* C27's case: on a table that was empty, an index_dataset of ds-1 that
\* wrote three chunks and a delete_dataset of ds-1 that ran meanwhile have
\* both returned success, the delete having removed what it read, and the
\* table holds some of the three chunks and not all.
C27_Witness ==
    \E p, q \in Procs :
        /\ nreq = 2
        /\ req[p].operation = "index_dataset"
        /\ Succeeded(p)
        /\ req[p].parameters.dataset_id = "ds-1"
        /\ req[p].response.body.embeddings_created = 3
        /\ req[q].operation = "delete_dataset"
        /\ Succeeded(q)
        /\ req[q].parameters.dataset_id = "ds-1"
        /\ req[q].response.body.deleted_count >= 1
        /\ \A i \in 1..Len(req[q].embeddings) : req[q].embeddings[i] \notin store
        /\ store \cap Indexed = {}
        /\ Cardinality(store) \in {1, 2}
        /\ \A item \in store :
              \E i \in 1..3 : item.embedding_id = req[p].response.body.results[i].embedding_id

\* C28: no step of a search changes the table, whether the search goes on,
\* returns or fails; a step of one request leaves the other request as it
\* is; and what a search returns is the ranking of a page of the table as
\* it stands, whatever searches run beside it.
C28_SearchesAreReadOnly ==
    /\ [][\A p \in Procs :
            ((req[p].operation \in Searches \/ req[p]'.operation \in Searches)
                /\ req[p]' # req[p]) =>
                    /\ store' = store
                    /\ \A q \in Procs \ {p} : req[q]' = req[q]]_vars
    /\ [](\A p \in Procs :
            SearchReturned(p) =>
                LET args == SearchArgs(req[p].operation, req[p].parameters)
                IN  /\ req[p].embeddings
                          \in retrieve_embeddings(store, args.dataset_id, DefaultLimit)
                    /\ req[p].response.body.results
                          = Rank(req[p].query_embedding, req[p].embeddings,
                                 args.top_k, args.content_type))

\* C28's case: of two searches that both read two items of the table, one
\* has returned its results and the other has failed at its answer call,
\* and the table is the indexed dataset it was.
C28_Witness ==
    /\ store = Indexed
    /\ nreq = 2
    /\ \A p \in Procs :
        /\ req[p].operation \in Searches
        /\ req[p].pc = "done"
        /\ Len(req[p].embeddings) = 2
    /\ Succeeded(1)
    /\ Failed(req[2])
    /\ req[1].response.body.results # <<>>

\* The three embedding_ids of a dataset
ChunkIds(dataset_id) == {dataset_id \o "#" \o type : type \in ChunkTypes}

\* C29: a step of index_dataset(D) or delete_dataset(D) adds to the table
\* only items of dataset_id D whose embedding_id is one of D#metadata,
\* D#abstract, D#keywords, and only by index_dataset, and takes out only
\* items of dataset_id D; the items of every other dataset stay as they are.
C29_WritersTouchTheirDataset ==
    [][\A p \in Procs :
        (req[p].operation \in Writers /\ req[p]' # req[p]) =>
            LET dataset_id == req[p].parameters.dataset_id
            IN  /\ \A item \in store' \ store :
                      /\ req[p].operation = "index_dataset"
                      /\ item.dataset_id = dataset_id
                      /\ item.embedding_id \in ChunkIds(dataset_id)
                /\ \A item \in store \ store' : item.dataset_id = dataset_id
                /\ {item \in store' : item.dataset_id # dataset_id}
                      = {item \in store : item.dataset_id # dataset_id}]_vars

\* C29's case: an index_dataset of ds-1 and a delete_dataset of ds-1 have
\* both written to a table that holds a chunk of ds-2, which is still there.
C29_Witness ==
    \E p, q \in Procs :
        /\ req[p].operation = "index_dataset"
        /\ req[p].results # <<>>
        /\ req[q].operation = "delete_dataset"
        /\ req[q].parameters.dataset_id = "ds-1"
        /\ req[q].deleted_count >= 1
        /\ Chunk(AllFields("ds-2"), 2, <<3, 4>>, 0) \in store

(* C30: query_knowledge_base calls the answer synthesizer exactly once when
   include_answer is true and the result list is non-empty, with the results
   in ranked order, and returns the synthesizer's string as it is, the empty
   string included, as answer; when include_answer is false it makes no
   synthesizer call and answer is null. *)
C30_AnswerOnceAndUnmodified ==
    /\ [](\A p \in Procs :
            /\ req[p].pc = "answer" =>
                  /\ req[p].operation = "query"
                  /\ Get(req[p].parameters, "include_answer", TRUE)
                  /\ req[p].results # <<>>
                  /\ NonIncreasing(req[p].results)
                  /\ Count(req[p].calls, "answer") = 0
            /\ req[p].operation = "query" /\ Succeeded(p) =>
                  LET include_answer == Get(req[p].parameters, "include_answer", TRUE)
                      body == req[p].response.body
                  IN  /\ body.results = req[p].results
                      /\ include_answer /\ body.results # <<>> =>
                            /\ Count(req[p].calls, "answer") = 1
                            /\ req[p].calls[Len(req[p].calls)] = "answer"
                            /\ body.answer \in Answers
                      /\ ~include_answer =>
                            /\ Count(req[p].calls, "answer") = 0
                            /\ body.answer = None)
    /\ [][\A p \in Procs :
            req[p].pc = "answer" /\ req[p]' # req[p] =>
                /\ req[p].pc' = "done"
                /\ req[p].results' = req[p].results
                /\ req[p].calls' = Append(req[p].calls, "answer")]_vars

C30_Witness ==
    \E p \in Procs :
        /\ req[p].operation = "query"
        /\ Succeeded(p)
        /\ Len(req[p].response.body.results) = 2
        /\ req[p].response.body.results[1].similarity
              > req[p].response.body.results[2].similarity
        /\ Count(req[p].calls, "answer") = 1
        /\ req[p].response.body.answer = ""

====
